---- MODULE Spec2Model ----
(***************************************************************************)
(* Model of generate_registry_json.py: the spreadsheet -> registry JSON    *)
(* mapping engine (build_records, _set_deep, _slugify) and its driver main.*)
(*                                                                         *)
(* Text is a sequence of one-character strings, so that strip, split,      *)
(* lower-casing and substring search are computed as the code computes     *)
(* them.  A cell, a constant or a JSON value is a tagged record            *)
(* [k |-> kind, v |-> payload]; a dict is a function from keys (text) to   *)
(* such values.                                                            *)
(***************************************************************************)
EXTENDS Integers, Sequences, FiniteSets, TLC

VARIABLES
    cfg,        \* main: the parsed config plus the --drop-empty flag
    df,         \* main: the loaded dataframe, a sequence of rows
    idx,        \* build_records: position of df.iterrows()
    records,    \* build_records: the list being built
    heap,       \* the dict objects owned by the config (const rules), by path
    origin,     \* history: for each record, the index of the row it came from
    emitted,    \* history: for each record, its content when it was appended
    out,        \* main: the document handed to json.dump
    pc,         \* main: control position
    slugKey,    \* _slugify: argument
    slugOut,    \* _slugify: result
    sdPairs,    \* _set_deep: the (path, value) pairs to write
    sdTodo,     \* _set_deep: the pairs not yet written
    sdObj       \* _set_deep: the dict being written

vars == <<cfg, df, idx, records, heap, origin, emitted, out, pc,
          slugKey, slugOut, sdPairs, sdTodo, sdObj>>

pipeVars == <<cfg, df, idx, records, heap, origin, emitted, out, pc>>
slugVars == <<slugKey, slugOut>>
sdVars == <<sdPairs, sdTodo, sdObj>>

(***************************************************************************)
(* Bounds of the model.                                                    *)
(***************************************************************************)
MaxRows == 2
MaxKeyLen == 4
MaxGeoLen == 4
MaxPairs == 2

(***************************************************************************)
(* Text.                                                                   *)
(***************************************************************************)
UpperLetters ==
    <<"A","B","C","D","E","F","G","H","I","J","K","L","M",
      "N","O","P","Q","R","S","T","U","V","W","X","Y","Z">>

LowerLetters ==
    <<"a","b","c","d","e","f","g","h","i","j","k","l","m",
      "n","o","p","q","r","s","t","u","v","w","x","y","z">>

Digits == <<"0","1","2","3","4","5","6","7","8","9">>

Range(s) == {s[i] : i \in DOMAIN s}

UpperChars == Range(UpperLetters)
DigitChars == Range(Digits)
AlnumChars == UpperChars \cup Range(LowerLetters) \cup DigitChars

\* str.isalnum() of one ASCII character
IsAlnum(ch) == ch \in AlnumChars

\* str.lower() of one ASCII character
Lower(ch) ==
    IF ch \in UpperChars
    THEN LowerLetters[CHOOSE i \in DOMAIN UpperLetters : UpperLetters[i] = ch]
    ELSE ch

\* the characters str.strip() removes
Whitespace == {" ", "\t"}

\* s.strip(chars): drop the leading and the trailing characters that are in chars
StripOf(s, chars) ==
    LET keep == {i \in DOMAIN s : s[i] \notin chars}
    IN  IF keep = {} THEN <<>>
        ELSE LET lo == CHOOSE i \in keep : \A j \in keep : i <= j
                 hi == CHOOSE i \in keep : \A j \in keep : j <= i
             IN  SubSeq(s, lo, hi)

\* s.strip()
Strip(s) == StripOf(s, Whitespace)

\* s.split(sep) for a one-character separator: always at least one part
RECURSIVE Split(_, _)
Split(s, sep) ==
    IF \A i \in DOMAIN s : s[i] # sep THEN <<s>>
    ELSE LET p == CHOOSE i \in DOMAIN s :
                      s[i] = sep /\ \A j \in 1..(i - 1) : s[j] # sep
         IN  <<SubSeq(s, 1, p - 1)>> \o Split(SubSeq(s, p + 1, Len(s)), sep)

\* needle in hay
Contains(hay, needle) ==
    \E i \in 0..(Len(hay) - Len(needle)) :
        SubSeq(hay, i + 1, i + Len(needle)) = needle

\* all texts over an alphabet up to a length
TextsUpTo(alphabet, n) == UNION {[1..m -> alphabet] : m \in 0..n}

(***************************************************************************)
(* Values: cells of the sheet, constants of the config, JSON values.       *)
(***************************************************************************)
None == [k |-> "none", v |-> <<>>]          \* Python None
NaN == [k |-> "nan", v |-> <<>>]            \* the sheet's missing marker
Text(s) == [k |-> "text", v |-> s]          \* str
Num(n) == [k |-> "num", v |-> n]            \* int
Float(n) == [k |-> "float", v |-> n]        \* float (integral values only)
Bool(b) == [k |-> "bool", v |-> b]          \* bool
Obj(d) == [k |-> "obj", v |-> d]            \* a dict built during the run
Ref(p) == [k |-> "ref", v |-> p]            \* the dict object of the const rule at path p
List(s) == [k |-> "list", v |-> s]          \* a YAML list

EmptyDict == [x \in {} |-> x]

\* d[key] = val
Put(d, key, val) == [x \in DOMAIN d \cup {key} |-> IF x = key THEN val ELSE d[x]]

\* d.update(e)
Update(d, e) == [x \in DOMAIN d \cup DOMAIN e |-> IF x \in DOMAIN e THEN e[x] ELSE d[x]]

\* pd.isna(val)
IsNa(val) == val.k \in {"none", "nan"}

\* isinstance(val, dict)
IsDict(val) == val.k \in {"obj", "ref"}

RECURSIVE ToDecimal(_)
ToDecimal(n) ==
    IF n < 10 THEN <<Digits[n + 1]>>
    ELSE ToDecimal(n \div 10) \o <<Digits[(n % 10) + 1]>>

\* str(val) of a scalar
StrOf(val) ==
    CASE val.k = "text" -> val.v
      [] val.k = "num" -> IF val.v < 0 THEN <<"-">> \o ToDecimal(-val.v) ELSE ToDecimal(val.v)
      [] val.k = "bool" -> IF val.v THEN <<"T","r","u","e">> ELSE <<"F","a","l","s","e">>
      [] val.k = "none" -> <<"N","o","n","e">>
      [] OTHER -> <<"n","a","n">>

\* the JSON value a stored value stands for: references followed
RECURSIVE Deref(_, _)
Deref(val, h) ==
    CASE val.k = "ref" -> Obj([x \in DOMAIN h[val.v] |-> Deref(h[val.v][x], h)])
      [] val.k = "obj" -> Obj([x \in DOMAIN val.v |-> Deref(val.v[x], h)])
      [] OTHER -> val

(***************************************************************************)
(* _set_deep                                                               *)
(***************************************************************************)
\* a walk that always starts a fresh dict
ReuseChildNever(cur, k) == FALSE

\* the loop's test negated: k in cur and isinstance(cur[k], dict)
ReuseChild(cur, k) == k \in DOMAIN cur /\ IsDict(cur[k])

\* the walk over keys[:-1] and the final assignment; the dicts owned by the
\* config are written in place (h), the others are rebuilt
RECURSIVE SetIn(_, _, _, _)
SetIn(cur, keys, value, h) ==
    IF Len(keys) = 1 THEN [d |-> Put(cur, keys[1], value), h |-> h]
    ELSE LET k == Head(keys)
         IN  IF ~ReuseChild(cur, k)
             THEN LET r == SetIn(EmptyDict, Tail(keys), value, h)
                  IN  [d |-> Put(cur, k, Obj(r.d)), h |-> r.h]
             ELSE IF cur[k].k = "obj"
             THEN LET r == SetIn(cur[k].v, Tail(keys), value, h)
                  IN  [d |-> Put(cur, k, Obj(r.d)), h |-> r.h]
             ELSE LET p == cur[k].v
                      r == SetIn(h[p], Tail(keys), value, h)
                  IN  [d |-> cur, h |-> [r.h EXCEPT ![p] = r.d]]

SetDeep(d, path, value, h) == SetIn(d, Split(path, "."), value, h)

\* dot paths of one to three keys among a and b
SdKeys == {<<"a">>, <<"b">>}

SdPaths ==
    SdKeys
      \cup {x \o <<".">> \o y : x \in SdKeys, y \in SdKeys}
      \cup {x \o <<".">> \o y \o <<".">> \o z : x \in SdKeys, y \in SdKeys, z \in SdKeys}

SdPairs == [path : SdPaths, value : {Num(1), Num(2)}]

EmptyHeap == [x \in {} |-> x]

SdInit ==
    /\ sdPairs \in UNION {{Range(f) : f \in [1..n -> SdPairs]} : n \in 0..MaxPairs}
    /\ sdTodo = sdPairs
    /\ sdObj = EmptyDict
    /\ cfg = 0 /\ df = <<>> /\ idx = 0 /\ records = <<>> /\ heap = <<>>
    /\ origin = <<>> /\ emitted = <<>> /\ out = 0 /\ pc = "set_deep"
    /\ slugKey = <<>> /\ slugOut = None

\* one call _set_deep(d, path, value), the pairs taken in any order
CallSetDeep ==
    /\ pc = "set_deep"
    /\ \E pair \in sdTodo :
        /\ sdObj' = SetDeep(sdObj, pair.path, pair.value, EmptyHeap).d
        /\ sdTodo' = sdTodo \ {pair}
    /\ UNCHANGED <<sdPairs, pipeVars, slugVars>>

SdNext == CallSetDeep

SdSpec == SdInit /\ [][SdNext]_vars

(***************************************************************************)
(* _slugify                                                                *)
(***************************************************************************)
\* a slug character that keeps the case
SlugCharKeepsCase(ch) == IF IsAlnum(ch) THEN ch ELSE "-"

SlugChar(ch) == IF IsAlnum(ch) THEN Lower(ch) ELSE "-"

Slugify(key) == StripOf([i \in DOMAIN key |-> SlugChar(key[i])], {"-"})

KeyAlphabet == {"A", "b", "7", " ", "-", "("}

SlugInit ==
    /\ slugKey \in TextsUpTo(KeyAlphabet, MaxKeyLen)
    /\ slugOut = None
    /\ cfg = 0 /\ df = <<>> /\ idx = 0 /\ records = <<>> /\ heap = <<>>
    /\ origin = <<>> /\ emitted = <<>> /\ out = 0 /\ pc = "slug"
    /\ sdPairs = {} /\ sdTodo = {} /\ sdObj = <<>>

CallSlugify ==
    /\ pc = "slug"
    /\ slugOut.k = "none"
    /\ slugOut' = [k |-> "text", v |-> Slugify(slugKey)]
    /\ UNCHANGED <<slugKey, pipeVars, sdVars>>

SlugNext == CallSlugify

SlugSpec == SlugInit /\ [][SlugNext]_vars

(***************************************************************************)
(* build_records: one row                                                  *)
(***************************************************************************)
\* row.get(col, None)
GetCell(row, col) == IF col \in DOMAIN row THEN row[col] ELSE None

\* a gate that does not trim the text
IsMissingUntrimmed(row, c) ==
    \/ IsNa(GetCell(row, c))
    \/ StrOf(GetCell(row, c)) = <<>>

\* the test of the required-field comprehension for one column
IsMissing(row, c) ==
    \/ IsNa(GetCell(row, c))
    \/ Strip(StrOf(GetCell(row, c))) = <<>>

\* the row is skipped: required_fields is non-empty and some column is missing
GateSkips(c, row) ==
    /\ c.required_fields # <<>>
    /\ \E i \in DOMAIN c.required_fields : IsMissing(row, c.required_fields[i])

\* val of a mapping rule before normalisation: the const object itself, or the cell
RuleValue(path, rule, row) ==
    IF rule.k = "const"
    THEN (IF rule.v.k = "obj" THEN Ref(path) ELSE rule.v)
    ELSE GetCell(row, rule.v)

\* "Normalize empties": NaN -> None, text stripped
Normalize(val) ==
    LET v1 == IF IsNa(val) THEN None ELSE val
    IN  IF v1.k = "text" THEN Text(Strip(v1.v)) ELSE v1

\* val is None or val == ""
IsEmpty(val) == val = None \/ val = Text(<<>>)

\* a rule that writes empties when drop_empty is off
RuleWritesHonoursFlag(val, drop_empty) == ~(drop_empty /\ IsEmpty(val))

\* whether the rule reaches _set_deep: not skipped by drop_empty, and non-empty
RuleWrites(val, drop_empty) ==
    /\ ~(drop_empty /\ IsEmpty(val))
    /\ ~IsEmpty(val)

\* the mapping loop over rules[i..], st = [d |-> obj, h |-> heap]
RECURSIVE ApplyRules(_, _, _, _, _)
ApplyRules(rules, i, row, drop_empty, st) ==
    IF i > Len(rules) THEN st
    ELSE LET val == Normalize(RuleValue(rules[i].path, rules[i].rule, row))
             nxt == IF RuleWrites(val, drop_empty)
                    THEN SetDeep(st.d, rules[i].path, val, st.h)
                    ELSE st
         IN  ApplyRules(rules, i + 1, row, drop_empty, nxt)

ApplyMapping(c, row, h) ==
    ApplyRules(c.mapping, 1, row, c.drop_empty, [d |-> EmptyDict, h |-> h])

\* a passthrough loop that keeps blank text whatever the flag
PassKeepsBlank(val, drop_empty) == ~(IsNa(val) \/ val = None)

\* whether the passthrough loop stores the column: not missing, and not a
\* blank text under drop_empty
PassKeeps(val, drop_empty) ==
    /\ ~(IsNa(val) \/ val = None)
    /\ ~(val.k = "text" /\ drop_empty /\ Strip(val.v) = <<>>)

\* the value the passthrough loop stores
PassValue(val) == IF val.k = "text" THEN Text(Strip(val.v)) ELSE val

\* the passthrough loop over cols[i..]
RECURSIVE PassLoop(_, _, _, _, _)
PassLoop(cols, i, row, drop_empty, xextra) ==
    IF i > Len(cols) THEN xextra
    ELSE LET val == GetCell(row, cols[i])
             nxt == IF PassKeeps(val, drop_empty)
                    THEN Put(xextra, Slugify(cols[i]), PassValue(val))
                    ELSE xextra
         IN  PassLoop(cols, i + 1, row, drop_empty, nxt)

GeoMarker == <<"g","e","o","l","o","c","a","t","i","o","n","-","l","a","t","i","t","u","d","e","-","-","l","o","n","g","i","t","u","d","e">>
kGeolocation == <<"g","e","o","l","o","c","a","t","i","o","n">>
kLat == <<"l","a","t">>
kLon == <<"l","o","n">>
kXExtra == <<"x","-","e","x","t","r","a">>

\* the digits of a float literal, after its sign
Unsigned(tok) == IF tok # <<>> /\ tok[1] \in {"-", "+"} THEN Tail(tok) ELSE tok

\* float(tok) succeeds: an optional sign and decimal digits (no fraction, no
\* exponent: the texts of the model hold none)
IsFloat(tok) ==
    LET t == Unsigned(Strip(tok))
    IN  t # <<>> /\ \A i \in DOMAIN t : t[i] \in DigitChars

RECURSIVE DigitsValue(_)
DigitsValue(t) ==
    IF t = <<>> THEN 0
    ELSE 10 * DigitsValue(SubSeq(t, 1, Len(t) - 1))
           + (CHOOSE n \in 0..9 : Digits[n + 1] = t[Len(t)])

\* float(tok)
ParseFloat(tok) ==
    LET t == Strip(tok)
        n == DigitsValue(Unsigned(t))
    IN  Float(IF t[1] = "-" THEN -n ELSE n)

\* parts = [p.strip() for p in str(raw).split(",")]
GeoParts(raw) == LET ps == Split(raw, ",") IN [i \in DOMAIN ps |-> Strip(ps[i])]

\* the try block ends in the assignment of xextra["geolocation"]
GeoParses(raw) ==
    LET parts == GeoParts(raw)
    IN  Len(parts) = 2 /\ IsFloat(parts[1]) /\ IsFloat(parts[2])

\* the two numbers the other way round
GeoValueSwapped(raw) ==
    LET parts == GeoParts(raw)
    IN  Obj((kLat :> ParseFloat(parts[2])) @@ (kLon :> ParseFloat(parts[1])))

\* {"lat": lat, "lon": lon}
GeoValue(raw) ==
    LET parts == GeoParts(raw)
    IN  Obj((kLat :> ParseFloat(parts[1])) @@ (kLon :> ParseFloat(parts[2])))

\* the keys of xextra in insertion order: list(xextra.keys())
RECURSIVE KeyOrder(_, _, _, _, _)
KeyOrder(cols, i, row, drop_empty, acc) ==
    IF i > Len(cols) THEN acc
    ELSE LET key == Slugify(cols[i])
             add == PassKeeps(GetCell(row, cols[i]), drop_empty) /\ key \notin Range(acc)
         IN  KeyOrder(cols, i + 1, row, drop_empty, IF add THEN Append(acc, key) ELSE acc)

\* the geolocation loop over keys[i..]
RECURSIVE GeoLoop(_, _, _)
GeoLoop(keys, i, xextra) ==
    IF i > Len(keys) THEN xextra
    ELSE LET key == keys[i]
             hit == /\ Contains(key, GeoMarker)
                    /\ xextra[key].k = "text"
                    /\ GeoParses(xextra[key].v)
             nxt == IF hit THEN Put(xextra, kGeolocation, GeoValue(xextra[key].v)) ELSE xextra
         IN  GeoLoop(keys, i + 1, nxt)

\* the bucket after the passthrough loop and the geolocation loop
ExtraBucket(c, row) ==
    GeoLoop(KeyOrder(c.passthrough_cols, 1, row, c.drop_empty, <<>>), 1,
            PassLoop(c.passthrough_cols, 1, row, c.drop_empty, EmptyDict))

\* obj.setdefault("x-extra", {}).update(xextra) raises: x-extra holds no dict
MergeRaises(d, xextra) ==
    xextra # EmptyDict /\ kXExtra \in DOMAIN d /\ ~IsDict(d[kXExtra])

\* a merge that replaces x-extra by the bucket
MergeExtraReplaces(st, xextra) ==
    IF xextra = EmptyDict THEN st
    ELSE [d |-> Put(st.d, kXExtra, Obj(xextra)), h |-> st.h]

\* if xextra: obj.setdefault("x-extra", {}).update(xextra)
MergeExtra(st, xextra) ==
    IF xextra = EmptyDict THEN st
    ELSE IF kXExtra \notin DOMAIN st.d
    THEN [d |-> Put(st.d, kXExtra, Obj(xextra)), h |-> st.h]
    ELSE IF st.d[kXExtra].k = "obj"
    THEN [d |-> Put(st.d, kXExtra, Obj(Update(st.d[kXExtra].v, xextra))), h |-> st.h]
    ELSE LET p == st.d[kXExtra].v
         IN  [d |-> st.d, h |-> [st.h EXCEPT ![p] = Update(st.h[p], xextra)]]

\* the body of the loop for a row that passes the gate: obj and the heap after it
BuildRecord(c, row, h) == MergeExtra(ApplyMapping(c, row, h), ExtraBucket(c, row))

\* a loop body that never raises
RowRaisesNever(c, row, h) == FALSE

\* an exception leaves the loop body: mapping.items() on a non-dict, or the merge
RowRaises(c, row, h) ==
    \/ ~c.mappingOk
    \/ MergeRaises(ApplyMapping(c, row, h).d, ExtraBucket(c, row))

(***************************************************************************)
(* The inputs: the sheet and the config.                                   *)
(***************************************************************************)
cID == <<"I","D">>
cOrg == <<"O","r","g">>
cURL == <<"U","R","L">>
cGeo == <<"G","e","o","l","o","c","a","t","i","o","n","(","l","a","t","i","t","u","d","e",","," ","l","o","n","g","i","t","u","d","e",")">>
cGeoSpaced == <<"G","e","o","l","o","c","a","t","i","o","n"," ","(","l","a","t","i","t","u","d","e",","," ","l","o","n","g","i","t","u","d","e",")">>

pId == <<"i","d">>
pOrgName == <<"o","r","g","a","n","i","z","a","t","i","o","n",".","n","a","m","e">>
pEnv == <<"e","n","v","i","r","o","n","m","e","n","t">>
pVersion == <<"v","e","r","s","i","o","n">>
pXSource == <<"x","-","e","x","t","r","a",".","s","o","u","r","c","e">>
kSource == <<"s","o","u","r","c","e">>
tProd == <<"p","r","o","d">>
tForm == <<"f","o","r","m">>
tAcme == <<"A","c","m","e">>
tS1 == <<" ","s","1"," ">>
tServices == <<"s","e","r","v","i","c","e","s">>

Col(path, col) == [path |-> path, rule |-> [k |-> "col", v |-> col]]
Const(path, val) == [path |-> path, rule |-> [k |-> "const", v |-> val]]

\* the sheet has the columns ID, Org and Geolocation(latitude, longitude); URL is
\* a column the config may name and the sheet lacks
Rows ==
    {(cID :> id) @@ (cOrg :> rest[1]) @@ (cGeo :> rest[2]) :
        id \in {NaN, Text(tS1), Text(<<" ">>), Num(0), Bool(FALSE)},
        rest \in {<<Text(tAcme), Text(<<"1", ",", "2">>)>>, <<Text(<<" ">>), NaN>>}}

Frames(rows, n) == UNION {[1..m -> rows] : m \in 0..n}

\* id and organization.name from columns, two constants, one of them blank
MapBasic ==
    <<Col(pId, cID), Col(pOrgName, cOrg), Const(pEnv, Text(tProd)),
      Const(pVersion, Text(<<" ">>))>>

\* a column rule that writes under x-extra
MapXSource == <<Col(pXSource, cOrg), Col(pId, cID)>>

\* a constant rule whose value is an object, at x-extra
MapXConst == <<Const(kXExtra, Obj(kSource :> Text(tForm))), Col(pId, cID)>>

\* a rule whose target path is the empty string
MapEmptyPath == <<Col(<<>>, cID)>>

Config(ok, mapping, pass, req, name, drop) ==
    [mappingOk |-> ok, mapping |-> mapping, passthrough_cols |-> pass,
     required_fields |-> req, array_name |-> name, drop_empty |-> drop]

\* x-extra is an object in every config (the data model's extra bucket): no rule
\* writes a scalar at x-extra
Configs ==
    {Config(TRUE, m, p, <<>>, Text(tServices), d) :
        m \in {MapBasic, MapXSource, MapXConst},
        p \in {<<>>, <<cGeo, cOrg>>},
        d \in BOOLEAN}
      \cup {Config(TRUE, MapBasic, p, <<cID>>, Text(tServices), d) :
              p \in {<<>>, <<cGeo, cOrg>>},
              d \in BOOLEAN}
      \cup {Config(TRUE, MapEmptyPath, <<>>, r, Text(tServices), TRUE) : r \in {<<>>, <<cID>>}}
      \cup {Config(TRUE, MapBasic, <<>>, <<cID>>, n, TRUE) :
              n \in {None, Text(<<>>), Num(5), List(<<Text(tServices)>>)}}
      \cup {Config(TRUE, MapBasic, <<>>, <<cID, cURL>>, None, TRUE)}
      \cup {Config(FALSE, <<>>, <<>>, <<cID>>, Text(tServices), d) : d \in BOOLEAN}

\* the dict objects the config owns: the values of its object constants
InitHeap(c) ==
    LET objs == {i \in DOMAIN c.mapping :
                    c.mapping[i].rule.k = "const" /\ c.mapping[i].rule.v.k = "obj"}
    IN  [p \in {c.mapping[i].path : i \in objs} |->
            c.mapping[CHOOSE i \in objs : c.mapping[i].path = p].rule.v.v]

NoOutput == [k |-> "nofile", name |-> <<>>, v |-> <<>>]

Start(c, frame) ==
    /\ cfg = c
    /\ df = frame
    /\ idx = 1
    /\ records = <<>>
    /\ heap = InitHeap(c)
    /\ origin = <<>>
    /\ emitted = <<>>
    /\ out = NoOutput
    /\ pc = "build"
    /\ slugKey = <<>> /\ slugOut = None
    /\ sdPairs = {} /\ sdTodo = {} /\ sdObj = EmptyDict

Init == \E c \in Configs : \E frame \in Frames(Rows, MaxRows) : Start(c, frame)

(***************************************************************************)
(* build_records and main                                                  *)
(***************************************************************************)
\* a list that grows at the front
EmitFront(list, x) == <<x>> \o list

\* records.append(obj)
Emit(list, x) == Append(list, x)

\* the row is skipped by the required-field gate: continue
SkipRow ==
    /\ pc = "build"
    /\ idx <= Len(df)
    /\ GateSkips(cfg, df[idx])
    /\ idx' = idx + 1
    /\ UNCHANGED <<cfg, df, records, heap, origin, emitted, out, pc, slugVars, sdVars>>

\* the row passes the gate and its record is appended
BuildRow ==
    /\ pc = "build"
    /\ idx <= Len(df)
    /\ ~GateSkips(cfg, df[idx])
    /\ ~RowRaises(cfg, df[idx], heap)
    /\ LET r == BuildRecord(cfg, df[idx], heap)
       IN  /\ records' = Emit(records, Obj(r.d))
           /\ heap' = r.h
           /\ origin' = Emit(origin, idx)
           /\ emitted' = Emit(emitted, Deref(Obj(r.d), r.h))
    /\ idx' = idx + 1
    /\ UNCHANGED <<cfg, df, out, pc, slugVars, sdVars>>

\* the row passes the gate and the loop body raises: main ends without writing
BuildFails ==
    /\ pc = "build"
    /\ idx <= Len(df)
    /\ ~GateSkips(cfg, df[idx])
    /\ RowRaises(cfg, df[idx], heap)
    /\ pc' = "failed"
    /\ UNCHANGED <<cfg, df, idx, records, heap, origin, emitted, out, slugVars, sdVars>>

\* bool(array_name)
Truthy(val) ==
    CASE val.k = "none" -> FALSE
      [] val.k = "text" -> val.v # <<>>
      [] val.k = "num" -> val.v # 0
      [] val.k = "list" -> val.v # <<>>
      [] OTHER -> TRUE

\* array_name can be a dict key
Hashable(val) == val.k \notin {"list", "obj"}

\* out = {array_name: records} if array_name else records, then json.dump
WriteOutput ==
    /\ pc = "build"
    /\ idx > Len(df)
    /\ ~(Truthy(cfg.array_name) /\ ~Hashable(cfg.array_name))
    /\ out' = [k |-> IF Truthy(cfg.array_name) THEN "wrapped" ELSE "bare",
               name |-> IF Truthy(cfg.array_name) THEN StrOf(cfg.array_name) ELSE <<>>,
               v |-> [i \in DOMAIN records |-> Deref(records[i], heap)]]
    /\ pc' = "done"
    /\ UNCHANGED <<cfg, df, idx, records, heap, origin, emitted, slugVars, sdVars>>

\* {array_name: records} raises TypeError: nothing is written
WriteFails ==
    /\ pc = "build"
    /\ idx > Len(df)
    /\ Truthy(cfg.array_name) /\ ~Hashable(cfg.array_name)
    /\ pc' = "failed"
    /\ UNCHANGED <<cfg, df, idx, records, heap, origin, emitted, out, slugVars, sdVars>>

Next == SkipRow \/ BuildRow \/ BuildFails \/ WriteOutput \/ WriteFails

Spec == Init /\ [][Next]_vars

(***************************************************************************)
(* The geolocation column over all short texts.                            *)
(***************************************************************************)
GeoAlphabet == {"1", ",", " ", "-", "x"}

GeoConfigs ==
    {Config(TRUE, <<>>, <<col>>, <<>>, None, d) : col \in {cGeo, cGeoSpaced}, d \in BOOLEAN}

GeoRows == {(cGeo :> Text(t)) @@ (cGeoSpaced :> Text(t)) : t \in TextsUpTo(GeoAlphabet, MaxGeoLen)}

GeoInit == \E c \in GeoConfigs : \E row \in GeoRows : Start(c, <<row>>)

GeoNext == BuildRow \/ WriteOutput

GeoSpec == GeoInit /\ [][GeoNext]_vars

(***************************************************************************)
(* Properties.                                                             *)
(***************************************************************************)
\* the leaves of a JSON value with their key paths; an empty object is a leaf
RECURSIVE LeavesOf(_, _)
LeavesOf(val, prefix) ==
    IF val.k = "obj" /\ val.v # EmptyDict
    THEN UNION {LeavesOf(val.v[x], Append(prefix, x)) : x \in DOMAIN val.v}
    ELSE {<<prefix, val>>}

IsPrefix(s, t) == Len(s) <= Len(t) /\ SubSeq(t, 1, Len(s)) = s

\* distinct paths, none a key-prefix of another
Independent(pairs) ==
    \A p \in pairs : \A q \in pairs :
        p # q => ~IsPrefix(Split(p.path, "."), Split(q.path, "."))

\* C7: once every pair of a set of independent (path, value) pairs is written by
\* _set_deep, in whatever order, the object holds exactly one leaf per pair, at the
\* pair's key path and with its value, and nothing else: siblings share their
\* intermediate objects and the result does not depend on the order.
C7_SetDeepOrderIndependent ==
    (pc = "set_deep" /\ sdTodo = {} /\ Independent(sdPairs) /\ sdPairs # {})
        => LeavesOf(Obj(sdObj), <<>>) = {<<Split(p.path, "."), p.value>> : p \in sdPairs}

C7_Witness ==
    /\ pc = "set_deep" /\ sdTodo = {} /\ Independent(sdPairs)
    /\ Cardinality(sdPairs) = 2
    /\ DOMAIN sdObj = {<<"a">>}
    /\ sdObj[<<"a">>].k = "obj"
    /\ DOMAIN sdObj[<<"a">>].v = {<<"a">>, <<"b">>}

\* drop a hyphen that follows a hyphen
RECURSIVE CollapseRuns(_)
CollapseRuns(s) ==
    IF Len(s) <= 1 THEN s
    ELSE LET rest == CollapseRuns(SubSeq(s, 1, Len(s) - 1))
         IN  IF s[Len(s)] = "-" /\ s[Len(s) - 1] = "-" THEN rest ELSE Append(rest, s[Len(s)])

\* C8 as stated: the slug is the lowercased name with every maximal run of
\* non-alphanumeric characters collapsed to a single hyphen and the outer hyphens
\* removed, so it never holds two consecutive hyphens.
C8_SlugCollapsesRuns ==
    slugOut.k = "text" =>
        /\ slugOut.v = StripOf(CollapseRuns([i \in DOMAIN slugKey |->
                                  IF IsAlnum(slugKey[i]) THEN Lower(slugKey[i]) ELSE "-"]), {"-"})
        /\ ~Contains(slugOut.v, <<"-", "-">>)

\* C8 amended: the slug is the name with every alphanumeric character lowercased and
\* every other character replaced by one hyphen, character by character (runs are not
\* collapsed), cut down to the span from its first to its last alphanumeric character;
\* it never starts or ends with a hyphen and may hold consecutive hyphens.
C8_SlugShape ==
    slugOut.k = "text" =>
        LET s == slugOut.v
        IN  /\ s # <<>> => (s[1] # "-" /\ s[Len(s)] # "-")
            /\ \E lo \in 0..Len(slugKey) :
                /\ lo + Len(s) <= Len(slugKey)
                /\ \A i \in 1..Len(s) :
                      s[i] = IF IsAlnum(slugKey[lo + i]) THEN Lower(slugKey[lo + i]) ELSE "-"
                /\ \A j \in (1..lo) \cup ((lo + Len(s) + 1)..Len(slugKey)) :
                      ~IsAlnum(slugKey[j])

C8_Witness ==
    /\ slugKey = <<"A", " ", "(", "b">>
    /\ slugOut = Text(<<"a", "-", "-", "b">>)

\* the claim's reading of a required column that is not satisfied
ClaimUnsatisfied(row, c) ==
    \/ c \notin DOMAIN row
    \/ row[c] \in {NaN, None}
    \/ (row[c].k = "text" /\ \A i \in DOMAIN row[c].v : row[c].v[i] \in Whitespace)

ClaimGateFails(req, row) == \E i \in DOMAIN req : ClaimUnsatisfied(row, req[i])

\* C1: of the rows the loop has gone through (a run that raises stops at the row it
\* raises on), a row with a required column that is
\* missing from the row, holds the missing marker or holds blank text has no record,
\* and every other row has exactly one; a required column holding 0 or False is
\* satisfied.
C1_RequiredGate ==
    /\ Len(records) = Len(origin)
    /\ \A k \in DOMAIN origin : origin[k] \in 1..(idx - 1)
    /\ \A i \in 1..(idx - 1) :
          Cardinality({k \in DOMAIN origin : origin[k] = i})
              = IF ClaimGateFails(cfg.required_fields, df[i]) THEN 0 ELSE 1

C1_Witness ==
    /\ cfg.required_fields = <<cID>>
    /\ Len(df) = 2 /\ idx = 3
    /\ df[1][cID] = Text(<<" ">>)
    /\ df[2][cID] = Num(0)
    /\ origin = <<2>>
    /\ Len(records) = 1

\* the rows gone through that pass the gate, in row order
RECURSIVE PassingUpTo(_)
PassingUpTo(n) ==
    IF n = 0 THEN <<>>
    ELSE IF GateSkips(cfg, df[n]) THEN PassingUpTo(n - 1)
    ELSE Append(PassingUpTo(n - 1), n)

\* C2: the records are those of the rows that pass the gate, one each, in row order
\* (with no object constant in the config, record k is the record built from the k-th
\* passing row), and main writes them in that order, under array_name when it is set.
C2_BatchOrder ==
    /\ origin = PassingUpTo(idx - 1)
    /\ Len(records) = Len(origin)
    /\ InitHeap(cfg) = EmptyHeap =>
          \A k \in DOMAIN records :
              records[k] = Obj(BuildRecord(cfg, df[origin[k]], EmptyHeap).d)
    /\ pc = "done" =>
          /\ Len(out.v) = Len(PassingUpTo(Len(df)))
          /\ out.v = [k \in DOMAIN records |-> Deref(records[k], heap)]
          /\ (cfg.array_name.k = "text" /\ cfg.array_name.v # <<>>) =>
                 (out.k = "wrapped" /\ out.name = cfg.array_name.v)

C2_Witness ==
    /\ pc = "done"
    /\ out.k = "wrapped" /\ out.name = tServices
    /\ Len(df) = 2 /\ origin = <<1, 2>>
    /\ out.v[1] # out.v[2]

\* a rule with an empty target path, or mapping or array_name of a malformed type
ConfigInvalid(c) ==
    \/ ~c.mappingOk
    \/ \E i \in DOMAIN c.mapping : c.mapping[i].path = <<>>
    \/ c.array_name.k \notin {"none", "text"}

RecordAlone(c, row) ==
    LET r == BuildRecord(c, row, InitHeap(c)) IN Deref(Obj(r.d), r.h)

\* C10 as stated: building a row leaves the config's constants and the records
\* already emitted as they were, and a row's record is that of the row alone.
C10_NoCrossRowState ==
    /\ heap = InitHeap(cfg)
    /\ \A k \in DOMAIN records :
          /\ Deref(records[k], heap) = emitted[k]
          /\ emitted[k] = RecordAlone(cfg, df[origin[k]])

\* the key paths of a JSON value that hold null, the missing marker or ""
EmptyLeaves(val) ==
    {l[1] : l \in {m \in LeavesOf(val, <<>>) : m[2] \in {None, NaN, Text(<<>>)}}}

\* C3 as stated: whatever the drop_empty flag, no record holds null or "" at any depth.
C3_NoNullOrEmpty ==
    \A k \in DOMAIN emitted : EmptyLeaves(emitted[k]) = {}

\* C3 amended: with drop_empty set no record holds null or "" at any depth; without
\* it no record holds null, and "" occurs only as the x-extra entry of a passthrough
\* column (a text cell that is blank after trimming is kept as slug -> ""). In both
\* cases a passthrough column whose cell is missing has no x-extra entry (configs
\* without object constants).
C3_OnlyBlankPassthrough ==
    \A k \in DOMAIN emitted :
        /\ cfg.drop_empty => EmptyLeaves(emitted[k]) = {}
        /\ EmptyLeaves(emitted[k]) \subseteq
              {<<kXExtra, Slugify(cfg.passthrough_cols[i])>> : i \in DOMAIN cfg.passthrough_cols}
        /\ \A l \in LeavesOf(emitted[k], <<>>) : l[2] \notin {None, NaN}
        /\ InitHeap(cfg) = EmptyHeap =>
              \A i \in DOMAIN cfg.passthrough_cols :
                  ClaimUnsatisfied(df[origin[k]], cfg.passthrough_cols[i])
                      /\ df[origin[k]][cfg.passthrough_cols[i]].k # "text"
                  => \A l \in LeavesOf(emitted[k], <<>>) :
                        l[1] # <<kXExtra, Slugify(cfg.passthrough_cols[i])>>

C3_Witness ==
    /\ ~cfg.drop_empty
    /\ \E k \in DOMAIN emitted :
          /\ <<<<kXExtra, Slugify(cOrg)>>, Text(<<>>)>> \in LeavesOf(emitted[k], <<>>)
          /\ df[origin[k]][cGeo] = NaN

Absent == [k |-> "absent", v |-> <<>>]

\* the value of a JSON object at a key path, Absent when the path leads nowhere
RECURSIVE Lookup(_, _)
Lookup(val, keys) ==
    IF keys = <<>> THEN val
    ELSE IF val.k = "obj" /\ Head(keys) \in DOMAIN val.v
    THEN Lookup(val.v[Head(keys)], Tail(keys))
    ELSE Absent

\* the claim's reading of a rule's value: the constant, or the cell of the column
ClaimRaw(rule, row) ==
    IF rule.k = "const" THEN rule.v
    ELSE IF rule.v \in DOMAIN row THEN row[rule.v] ELSE None

ClaimNonEmpty(val) ==
    /\ val \notin {None, NaN}
    /\ ~(val.k = "text" /\ \A i \in DOMAIN val.v : val.v[i] \in Whitespace)

ClaimIsNumber(t) ==
    \E sign \in {<<>>, <<"-">>, <<"+">>} :
        \E n \in 1..Len(t) :
            \E lo \in 0..(Len(t) - n) :
                /\ \A i \in 1..n : t[lo + i] \in DigitChars
                /\ \A i \in 1..(lo - Len(sign)) : t[i] \in Whitespace
                /\ lo >= Len(sign)
                /\ SubSeq(t, lo - Len(sign) + 1, lo) = sign
                /\ \A i \in (lo + n + 1)..Len(t) : t[i] \in Whitespace

\* the text holds exactly one comma, with a number on each side
ClaimTwoNumbers(t) ==
    \E p \in DOMAIN t :
        /\ t[p] = ","
        /\ \A q \in DOMAIN t : q # p => t[q] # ","
        /\ ClaimIsNumber(SubSeq(t, 1, p - 1))
        /\ ClaimIsNumber(SubSeq(t, p + 1, Len(t)))

ClaimLatLon(t) ==
    LET p == CHOOSE q \in DOMAIN t : t[q] = ","
    IN  Obj((kLat :> ParseFloat(SubSeq(t, 1, p - 1)))
              @@ (kLon :> ParseFloat(SubSeq(t, p + 1, Len(t)))))

\* C5: every row gone through has its record, and for a passthrough column whose slug
\* holds the marker and whose x-extra value is text, x-extra keeps slug -> trimmed
\* text, and holds geolocation = {lat, lon}, in that order, exactly when the text is
\* two numbers separated by one comma.
C5_GeoBestEffort ==
    /\ \A i \in DOMAIN df : ~RowRaises(cfg, df[i], heap)
    /\ origin = [i \in 1..(idx - 1) |-> i]
    /\ \A k \in DOMAIN emitted :
          \A i \in DOMAIN cfg.passthrough_cols :
              LET col == cfg.passthrough_cols[i]
                  cell == df[origin[k]][col]
                  x == Lookup(emitted[k], <<kXExtra>>)
              IN  (/\ Contains(Slugify(col), GeoMarker)
                   /\ cell.k = "text"
                   /\ ~(cfg.drop_empty /\ Strip(cell.v) = <<>>))
                  => /\ x.k = "obj"
                     /\ Lookup(x, <<Slugify(col)>>) = Text(Strip(cell.v))
                     /\ Lookup(x, <<kGeolocation>>)
                          = IF ClaimTwoNumbers(cell.v) THEN ClaimLatLon(cell.v) ELSE Absent

C5_Witness ==
    /\ cfg.passthrough_cols = <<cGeo>>
    /\ df[1][cGeo] = Text(<<"1", ",", "-", "1">>)
    /\ emitted # <<>>
    /\ Lookup(emitted[1], <<kXExtra, kGeolocation, kLat>>) = Float(1)
    /\ Lookup(emitted[1], <<kXExtra, kGeolocation, kLon>>) = Float(-1)
    /\ Lookup(emitted[1], <<kXExtra, Slugify(cGeo)>>) = Text(<<"1", ",", "-", "1">>)

C5_WitnessNoPair ==
    /\ cfg.passthrough_cols = <<cGeo>>
    /\ df[1][cGeo] = Text(<<"1", ",", "x">>)
    /\ emitted # <<>>
    /\ Lookup(emitted[1], <<kXExtra, kGeolocation>>) = Absent
    /\ Lookup(emitted[1], <<kXExtra, Slugify(cGeo)>>) = Text(<<"1", ",", "x">>)

C9_MergeKeepsMapped ==
    [][Len(emitted') = Len(emitted) + 1 =>
          LET row == df[idx]
              m == ApplyMapping(cfg, row, heap)
              mj == Deref(Obj(m.d), m.h)
              mx == Lookup(mj, <<kXExtra>>)
              mkeys == IF mx.k = "obj" THEN DOMAIN mx.v ELSE {}
              x == ExtraBucket(cfg, row)
              r == emitted'[Len(emitted')]
              rx == Lookup(r, <<kXExtra>>)
          IN  IF x = EmptyDict THEN r = mj
              ELSE /\ rx.k = "obj"
                   /\ DOMAIN rx.v = DOMAIN x \cup mkeys
                   /\ \A key \in DOMAIN x : rx.v[key] = x[key]
                   /\ \A key \in mkeys \ DOMAIN x : rx.v[key] = mx.v[key]
                   /\ DOMAIN r.v = DOMAIN mj.v \cup {kXExtra}
                   /\ \A key \in DOMAIN mj.v \ {kXExtra} : r.v[key] = mj.v[key]]_vars

C9_Witness ==
    /\ cfg.mapping = MapXSource
    /\ \E k \in DOMAIN emitted :
          /\ Lookup(emitted[k], <<kXExtra, kSource>>) = Text(tAcme)
          /\ Lookup(emitted[k], <<kXExtra, Slugify(cOrg)>>) = Text(tAcme)
          /\ Lookup(emitted[k], <<kXExtra, kGeolocation, kLat>>) = Float(1)
          /\ Lookup(emitted[k], <<pId>>) = Text(<<"s", "1">>)

====
